---- MODULE Spec2Model ----
(***************************************************************************)
(* numbers_into_words: conversion of 64-bit unsigned integers to English   *)
(* words (src/src/lib.rs, module conversion_to_words).                     *)
(*                                                                         *)
(* The conversion functions are pure; they are modelled as operators that  *)
(* compute what the Rust code computes, and the state machine applies one  *)
(* of them to an input and records the call and its result.                *)
(*                                                                         *)
(* The command-line layer (module process_input: parse_single_input,       *)
(* Config::parse, Config::process) is modelled the same way; its calls are *)
(* the actions of a specification of their own, SpecCli.                   *)
(*                                                                         *)
(* A u64 does not fit TLC's 32-bit integers, so a u64 is a triple of       *)
(* base-10^9 limbs <<lo, mid, hi>> standing for lo + mid*10^9 + hi*10^18,  *)
(* and the code's division by a power of ten is carried out on the limbs.  *)
(***************************************************************************)
EXTENDS Integers, Sequences, FiniteSets, TLC

VARIABLES fn, arg, group, policy, value, result,
          args, component, config, output

\* what a call of the conversion functions sets
conv_vars == <<arg, group, policy, value, result>>

\* what a call of the command-line functions sets
cli_vars == <<args, component, config, output>>

vars == <<fn, arg, group, policy, value, result, args, component, config, output>>

(* ------------------------------ bounds --------------------------------- *)

\* to_word is applied to every x in 0..MaxDense
MaxDense == 1100
\* ... and to every x whose 3-digit groups are sample values, at most this
\* many of them nonzero
MaxNonzeroGroups == 2
\* the helpers are applied to every argument in 0..MaxHelperArg
MaxHelperArg == 1005
\* Config::parse is given the program name and at most MaxArgs arguments
MaxArgs == 3

(* ------------------------------ u64 ------------------------------------ *)

LimbBase == 10^9

U64FromNat(n) == <<n % LimbBase, n \div LimbBase, 0>>

\* the limb of weight LimbBase^k (0 beyond the third limb)
Limb(x, k) == IF k < 3 THEN x[k + 1] ELSE 0

\* u64::MAX = 18_446_744_073_709_551_615
U64Max == <<709551615, 446744073, 18>>

U64Le(a, b) ==
    \/ a[3] < b[3]
    \/ a[3] = b[3] /\ a[2] < b[2]
    \/ a[3] = b[3] /\ a[2] = b[2] /\ a[1] <= b[1]

IsU64(x) ==
    /\ x \in Seq(0..(LimbBase - 1))
    /\ Len(x) = 3
    /\ U64Le(x, U64Max)

\* 10^e as an unbounded number on the limbs, for 0 <= e < 27; 10_u64.pow(e)
\* is this value when it is a u64 and overflows otherwise
Pow10(e) == [k \in 1..3 |-> IF e \div 9 = k - 1 THEN 10^(e % 9) ELSE 0]

\* a bug to_word could have: the division without the % 1000 (a group then
\* holds every higher digit of its limb as well)
DivPow10Only(x, e) ==
    LET q == e \div 9
        r == e % 9
    IN  Limb(x, q) \div (10^r)

\* (x / 10^e) % 1000 on the limbs, for 0 <= e; the three digits wanted lie in
\* limb e \div 9 and, when e % 9 > 6, also in the next one
DivPow10Mod1000(x, e) ==
    LET q == e \div 9
        r == e % 9
        lo == Limb(x, q) \div (10^r)
    IN  IF r <= 6
        THEN lo % 1000
        ELSE (lo + (Limb(x, q + 1) % 1000) * 10^(9 - r)) % 1000

(* ------------------------------ results -------------------------------- *)

\* Result<String, &'static str>, and the panic of a failed expect()
Ok(s) == [tag |-> "Ok", val |-> s]
Err(m) == [tag |-> "Err", val |-> m]
Panic(m) == [tag |-> "Panic", val |-> m]

\* Result::expect(msg): the Ok value, or a panic
expect(r, msg) ==
    IF r.tag = "Ok" THEN r
    ELSE IF r.tag = "Err" THEN Panic(msg)
    ELSE r

RECURSIVE ConcatAll(_)
ConcatAll(parts) ==
    IF parts = <<>> THEN "" ELSE Head(parts).val \o ConcatAll(Tail(parts))

\* format!("{}{}..", parts): the arguments are evaluated first, left to
\* right, and the first one that panics aborts the call
format(parts) ==
    LET bad == {i \in 1..Len(parts) : parts[i].tag # "Ok"}
    IN  IF bad = {}
        THEN Ok(ConcatAll(parts))
        ELSE parts[CHOOSE i \in bad : \A j \in bad : i <= j]

(* -------------------------- conversion_to_words ------------------------ *)

AND_STR == " and "

AndBehavior == {"None", "LastGroup", "OnlyUnderThousand", "All"}

\* a bug the pattern could have: the exclusive range 0..999
InRange0To998(v) == v[3] = 0 /\ v[2] = 0 /\ v[1] < 999

\* the pattern 0..=999 on a u64
InRange0To999(v) == v[3] = 0 /\ v[2] = 0 /\ v[1] <= 999

\* a bug insert_and could have: the two LastGroup arms exchanged
insert_and_last_inverted(self, grp, v) ==
    IF self = "None" THEN " "
    ELSE IF self = "LastGroup" /\ grp = 0 THEN " "
    ELSE IF self = "LastGroup" THEN AND_STR
    ELSE IF self = "OnlyUnderThousand" /\ InRange0To999(v) THEN AND_STR
    ELSE IF self = "OnlyUnderThousand" THEN " "
    ELSE AND_STR

\* a bug insert_and could have: the arm (LastGroup, _, _) missing, so that the
\* other groups fall through to the last arm
insert_and_last_falls_through(self, grp, v) ==
    IF self = "None" THEN " "
    ELSE IF self = "LastGroup" /\ grp = 0 THEN AND_STR
    ELSE IF self = "OnlyUnderThousand" /\ InRange0To999(v) THEN AND_STR
    ELSE IF self = "OnlyUnderThousand" THEN " "
    ELSE AND_STR

\* a bug insert_and could have: OnlyUnderThousand decided by the group index
\* instead of the full value
insert_and_under_thousand_by_group(self, grp, v) ==
    IF self = "None" THEN " "
    ELSE IF self = "LastGroup" /\ grp = 0 THEN AND_STR
    ELSE IF self = "LastGroup" THEN " "
    ELSE IF self = "OnlyUnderThousand" /\ grp = 0 THEN AND_STR
    ELSE IF self = "OnlyUnderThousand" THEN " "
    ELSE AND_STR

\* a bug insert_and could have: OnlyUnderThousand without the test of the
\* full value
insert_and_under_thousand_always(self, grp, v) ==
    IF self = "None" THEN " "
    ELSE IF self = "LastGroup" /\ grp = 0 THEN AND_STR
    ELSE IF self = "LastGroup" THEN " "
    ELSE AND_STR

insert_and(self, grp, v) ==
    IF self = "None" THEN " "
    ELSE IF self = "LastGroup" /\ grp = 0 THEN AND_STR
    ELSE IF self = "LastGroup" THEN " "
    ELSE IF self = "OnlyUnderThousand" /\ InRange0To999(v) THEN AND_STR
    ELSE IF self = "OnlyUnderThousand" THEN " "
    ELSE AND_STR

\* a bug single_digit could have: an entry for 10 as well
single_digit_with_ten(x) ==
    IF x \in 0..10
    THEN Ok(<<"zero", "one", "two", "three", "four", "five", "six", "seven",
              "eight", "nine", "ten">>[x + 1])
    ELSE Err("Value over 9.")

\* a bug single_digit could have: the words of 6 and 7 exchanged
single_digit_swapped(x) ==
    IF x = 0 THEN Ok("zero")
    ELSE IF x = 1 THEN Ok("one")
    ELSE IF x = 2 THEN Ok("two")
    ELSE IF x = 3 THEN Ok("three")
    ELSE IF x = 4 THEN Ok("four")
    ELSE IF x = 5 THEN Ok("five")
    ELSE IF x = 6 THEN Ok("seven")
    ELSE IF x = 7 THEN Ok("six")
    ELSE IF x = 8 THEN Ok("eight")
    ELSE IF x = 9 THEN Ok("nine")
    ELSE Err("Value over 9.")

single_digit(x) ==
    IF x = 0 THEN Ok("zero")
    ELSE IF x = 1 THEN Ok("one")
    ELSE IF x = 2 THEN Ok("two")
    ELSE IF x = 3 THEN Ok("three")
    ELSE IF x = 4 THEN Ok("four")
    ELSE IF x = 5 THEN Ok("five")
    ELSE IF x = 6 THEN Ok("six")
    ELSE IF x = 7 THEN Ok("seven")
    ELSE IF x = 8 THEN Ok("eight")
    ELSE IF x = 9 THEN Ok("nine")
    ELSE Err("Value over 9.")

RECURSIVE under_100(_)

\* 14 | 16 | 17 | 19 => format!("{}teen", single_digit(x % 10))
under_100_teen(x) ==
    format(<<expect(single_digit(x % 10), "under 10"), Ok("teen")>>)

\* a bug under_100 could have: the tens digit taken with % instead of /
under_100_ty_mod(x) ==
    format(<<expect(single_digit(x % 10), "under 10"), Ok("ty")>>)

\* x if x % 10 == 0 => format!("{}ty", single_digit(x / 10))
under_100_ty(x) ==
    format(<<expect(single_digit(x \div 10), "under 10"), Ok("ty")>>)

\* a bug under_100 could have: a conjunction between the tens and the units
under_100_compound_with_and(x) ==
    format(<<expect(under_100(x - (x % 10)), "under 100"),
             Ok(AND_STR),
             expect(single_digit(x % 10), "under 10")>>)

\* 21..=99 => format!("{}-{}", under_100(x - (x % 10)), single_digit(x % 10))
under_100_compound(x) ==
    format(<<expect(under_100(x - (x % 10)), "under 100"),
             Ok("-"),
             expect(single_digit(x % 10), "under 10")>>)

\* the arms of the match in the order of the source: the first that fits wins
under_100(x) ==
    IF x \in 0..9 THEN single_digit(x)
    ELSE IF x = 10 THEN Ok("ten")
    ELSE IF x = 11 THEN Ok("eleven")
    ELSE IF x = 12 THEN Ok("twelve")
    ELSE IF x = 13 THEN Ok("thirteen")
    ELSE IF x = 15 THEN Ok("fifteen")
    ELSE IF x = 18 THEN Ok("eighteen")
    ELSE IF x \in {14, 16, 17, 19} THEN under_100_teen(x)
    ELSE IF x = 20 THEN Ok("twenty")
    ELSE IF x = 30 THEN Ok("thirty")
    ELSE IF x = 40 THEN Ok("forty")
    ELSE IF x = 50 THEN Ok("fifty")
    ELSE IF x = 80 THEN Ok("eighty")
    ELSE IF x % 10 = 0 THEN under_100_ty(x)
    ELSE IF x \in 21..99 THEN under_100_compound(x)
    ELSE Err("Value over 99")

RECURSIVE under_1000(_, _, _, _)

\* a bug under_1000 could have: a separator left after the hundreds
under_1000_hundreds_trailing(x) ==
    format(<<expect(single_digit(x \div 100), "under 10"), Ok("-hundred ")>>)

\* 100..=900 if x % 100 == 0 => format!("{}-hundred", single_digit(x / 100))
under_1000_hundreds(x) ==
    format(<<expect(single_digit(x \div 100), "under 10"), Ok("-hundred")>>)

\* a bug under_1000 could have: the remainder taken modulo 10
under_1000_compound_mod10(x, grp, and_behavior, full_value) ==
    format(<<expect(under_1000(x - (x % 100), grp, and_behavior, full_value),
                    "under 1000"),
             Ok(insert_and(and_behavior, grp, full_value)),
             expect(under_100(x % 10), "under 100")>>)

\* x if x < 1000 => format!("{}{}{}", under_1000(x - (x % 100), ..),
\*                          and_behavior.insert_and(group, full_value),
\*                          under_100(x % 100))
under_1000_compound(x, grp, and_behavior, full_value) ==
    format(<<expect(under_1000(x - (x % 100), grp, and_behavior, full_value),
                    "under 1000"),
             Ok(insert_and(and_behavior, grp, full_value)),
             expect(under_100(x % 100), "under 100")>>)

under_1000(x, grp, and_behavior, full_value) ==
    IF x \in 0..99 THEN under_100(x)
    ELSE IF x \in 100..900 /\ x % 100 = 0 THEN under_1000_hundreds(x)
    ELSE IF x < 1000 THEN under_1000_compound(x, grp, and_behavior, full_value)
    ELSE Err("Value over 999.")

\* indexed 0..6 in the code, 1..7 here
POWERS_THOUSAND ==
    <<"", " thousand", " million", " billion", " trillion", " quadrillion",
      " quintillion">>

\* a bug to_word could have: the separator written after every piece
join_trailing(strs, sep) ==
    ConcatAll([k \in 1..Len(strs) |-> Ok(strs[k] \o sep)])

\* Vec<String>::join(sep)
RECURSIVE join(_, _)
join(strs, sep) ==
    IF strs = <<>> THEN ""
    ELSE IF Len(strs) = 1 THEN strs[1]
    ELSE strs[1] \o sep \o join(Tail(strs), sep)

\* a bug to_word could have: the groups taken least-significant first
to_word_groups_ascending(x) ==
    [k \in 1..7 |->
        LET y == k - 1
        IN  <<DivPow10Mod1000(x, 3 * y), y, x>>]

\* a bug to_word could have: the exponents taken one group too high
to_word_exponent_from_seven(y) == 3 * (7 - y)

\* the exponent in 10_u64.pow(3 * (6 - y))
to_word_exponent(y) == 3 * (6 - y)

\* (0..7).map(|y| ((x / 10^(3 * (6 - y))) % 1000, 6 - y, x))
to_word_groups(x) ==
    [k \in 1..7 |->
        LET y == k - 1
        IN  <<DivPow10Mod1000(x, to_word_exponent(y)), 6 - y, x>>]

\* a bug to_word could have: no filter, every group rendered
KeepEveryGroup(t) == TRUE

\* .filter(|(a, _, _)| *a != 0)
NonzeroGroup(t) == t[1] # 0

\* a bug to_word could have: the groups handed on without the filter
to_word_kept_unfiltered(x) == to_word_groups(x)

to_word_kept(x) == SelectSeq(to_word_groups(x), NonzeroGroup)

\* a bug to_word could have: the suffix taken at index 0 for every group
to_word_piece_no_suffix(t, and_behavior) ==
    format(<<expect(under_1000(t[1], t[2], and_behavior, t[3]), "under 1000"),
             Ok(POWERS_THOUSAND[1])>>)

\* .map(|(a, b, x)| format!("{}{}", under_1000(a, b, and_behavior, x)
\*                                   .expect("under 1000"), POWERS_THOUSAND[b]))
to_word_piece(t, and_behavior) ==
    format(<<expect(under_1000(t[1], t[2], and_behavior, t[3]), "under 1000"),
             Ok(POWERS_THOUSAND[t[2] + 1])>>)

\* a bug to_word could have: no special case for 0, which has no group to render
to_word_no_zero_case(x, and_behavior) ==
    LET kept == to_word_kept(x)
        pieces == [k \in 1..Len(kept) |-> to_word_piece(kept[k], and_behavior)]
        bad == {k \in 1..Len(pieces) : pieces[k].tag # "Ok"}
    IN  IF bad # {}
        THEN pieces[CHOOSE k \in bad : \A j \in bad : k <= j]
        ELSE Ok(join([k \in 1..Len(pieces) |-> pieces[k].val], ", "))

to_word(x, and_behavior) ==
    IF x = U64FromNat(0)
    THEN expect(single_digit(0), "under 10")
    ELSE LET kept == to_word_kept(x)
             pieces == [k \in 1..Len(kept) |-> to_word_piece(kept[k], and_behavior)]
             bad == {k \in 1..Len(pieces) : pieces[k].tag # "Ok"}
         IN  IF bad # {}
             THEN pieces[CHOOSE k \in bad : \A j \in bad : k <= j]
             ELSE Ok(join([k \in 1..Len(pieces) |-> pieces[k].val], ", "))

(* ---------------------- the calls a conversion makes ------------------- *)

RECURSIVE under_100_calls(_)

\* a bug under_100 could have: the compound arm recursing on x - 1 instead of
\* on the tens part
under_100_calls_stepwise(x) ==
    IF x \in 0..9 THEN {<<"single_digit", x>>}
    ELSE IF x \in {10, 11, 12, 13, 15, 18} THEN {}
    ELSE IF x \in {14, 16, 17, 19} THEN {<<"single_digit", x % 10>>}
    ELSE IF x \in {20, 30, 40, 50, 80} THEN {}
    ELSE IF x % 10 = 0 THEN {<<"single_digit", x \div 10>>}
    ELSE IF x \in 21..99
        THEN {<<"under_100", x - 1>>, <<"single_digit", x % 10>>}
             \cup under_100_calls(x - 1)
    ELSE {}

\* The calls under_100(x) makes, as <<callee, argument>>, its recursion's
\* included (all of them, as if none had panicked before).
under_100_calls(x) ==
    IF x \in 0..9 THEN {<<"single_digit", x>>}
    ELSE IF x \in {10, 11, 12, 13, 15, 18} THEN {}
    ELSE IF x \in {14, 16, 17, 19} THEN {<<"single_digit", x % 10>>}
    ELSE IF x \in {20, 30, 40, 50, 80} THEN {}
    ELSE IF x % 10 = 0 THEN {<<"single_digit", x \div 10>>}
    ELSE IF x \in 21..99
        THEN {<<"under_100", x - (x % 10)>>, <<"single_digit", x % 10>>}
             \cup under_100_calls(x - (x % 10))
    ELSE {}

\* The calls under_1000(x, ..) makes
RECURSIVE under_1000_calls(_)
under_1000_calls(x) ==
    IF x \in 0..99 THEN {<<"under_100", x>>} \cup under_100_calls(x)
    ELSE IF x \in 100..900 /\ x % 100 = 0 THEN {<<"single_digit", x \div 100>>}
    ELSE IF x < 1000
        THEN {<<"under_1000", x - (x % 100)>>, <<"under_100", x % 100>>}
             \cup under_1000_calls(x - (x % 100))
             \cup under_100_calls(x % 100)
    ELSE {}

\* The calls to_word(x, ..) makes, and the indexes it takes of POWERS_THOUSAND
to_word_calls(x) ==
    IF x = U64FromNat(0)
    THEN {<<"single_digit", 0>>}
    ELSE UNION {
            {<<"under_1000", to_word_kept(x)[k][1]>>,
             <<"POWERS_THOUSAND", to_word_kept(x)[k][2]>>}
                \cup under_1000_calls(to_word_kept(x)[k][1]) :
            k \in 1..Len(to_word_kept(x))}

(* ------------------------- process_input: texts ------------------------ *)

\* The arguments are taken to be ASCII texts: a character is a byte, and a
\* slice never falls inside a character.

UpperCaseLetters == "ABCDEFGHIJKLMNOPQRSTUVWXYZ"
LowerCaseLetters == "abcdefghijklmnopqrstuvwxyz"

\* char::to_lowercase on an ASCII character
char_to_lowercase(c) ==
    LET at == {i \in 1..Len(UpperCaseLetters) : SubSeq(UpperCaseLetters, i, i) = c}
    IN  IF at = {} THEN c
        ELSE LET i == CHOOSE j \in at : TRUE IN SubSeq(LowerCaseLetters, i, i)

\* str::to_lowercase
RECURSIVE to_lowercase(_)
to_lowercase(s) ==
    IF s = "" THEN ""
    ELSE char_to_lowercase(SubSeq(s, 1, 1)) \o to_lowercase(SubSeq(s, 2, Len(s)))

\* &s[from..to], bytes from (counted from 0) up to to, to excluded: a panic
\* when the range does not lie within the text
Slice(s, from, to) ==
    IF from <= to /\ to <= Len(s)
    THEN Ok(SubSeq(s, from + 1, to))
    ELSE Panic("byte index out of range")

\* &s[from..]
SliceFrom(s, from) == Slice(s, from, Len(s))

\* &s[..to]
SliceTo(s, to) == Slice(s, 0, to)

DecimalDigits == "0123456789"

\* char::is_ascii_digit
is_ascii_digit(c) == \E i \in 1..Len(DecimalDigits) : SubSeq(DecimalDigits, i, i) = c

\* .chars().filter(|x| x.is_ascii_digit()).collect::<String>()
RECURSIVE ascii_digits(_)
ascii_digits(s) ==
    IF s = "" THEN ""
    ELSE (IF is_ascii_digit(SubSeq(s, 1, 1)) THEN SubSeq(s, 1, 1) ELSE "")
         \o ascii_digits(SubSeq(s, 2, Len(s)))

DigitValue(c) == CHOOSE d \in 0..9 : SubSeq(DecimalDigits, d + 1, d + 1) = c

\* the number a string of at most 9 decimal digits denotes ("" denotes 0)
RECURSIVE DigitsToNat(_)
DigitsToNat(d) ==
    IF d = "" THEN 0
    ELSE 10 * DigitsToNat(SubSeq(d, 1, Len(d) - 1)) + DigitValue(SubSeq(d, Len(d), Len(d)))

RECURSIVE TrimLeadingZeros(_)
TrimLeadingZeros(d) ==
    IF d # "" /\ SubSeq(d, 1, 1) = "0" THEN TrimLeadingZeros(SubSeq(d, 2, Len(d))) ELSE d

\* str::parse::<u64>() on a nonempty string of decimal digits: the value, or
\* Err when it exceeds u64::MAX. The digits are read into the limbs nine at a
\* time from the right; leading zeros do not count.
parse_u64(d) ==
    LET s == TrimLeadingZeros(d)
        n == Len(s)
        Part(a, b) == IF b < 1 THEN 0
                      ELSE DigitsToNat(SubSeq(s, IF a < 1 THEN 1 ELSE a, b))
        x == <<Part(n - 8, n), Part(n - 17, n - 9), Part(n - 26, n - 18)>>
    IN  IF n <= 20 /\ U64Le(x, U64Max)
        THEN Ok(x)
        ELSE Err("number too large to fit in target type")

\* the decimal numeral of a number below 10^9, without leading zeros
RECURSIVE NatToString(_)
NatToString(n) ==
    IF n < 10 THEN SubSeq(DecimalDigits, n + 1, n + 1)
    ELSE NatToString(n \div 10) \o SubSeq(DecimalDigits, (n % 10) + 1, (n % 10) + 1)

\* the nine digits of a limb, leading zeros included
LimbToString(n) ==
    LET s == NatToString(n) IN SubSeq("000000000", 1, 9 - Len(s)) \o s

\* format!("{}", x) for a u64
u64_to_string(x) ==
    IF x[3] # 0 THEN NatToString(x[3]) \o LimbToString(x[2]) \o LimbToString(x[1])
    ELSE IF x[2] # 0 THEN NatToString(x[2]) \o LimbToString(x[1])
    ELSE NatToString(x[1])

(* --------------------- process_input: InputComponent ------------------- *)

\* enum InputComponent
ToConvert(n) == [kind |-> "ToConvert", value |-> n]
Error(msg) == [kind |-> "Error", msg |-> msg]
Help == [kind |-> "Help"]
AndHelp == [kind |-> "AndHelp"]
MinimalOutput == [kind |-> "MinimalOutput"]
AndOption(b) == [kind |-> "AndOption", and_behavior |-> b]

\* no component: the call panicked
Fault(msg) == [kind |-> "Panic", msg |-> msg]

\* a bug parse_single_input could have: "last" and "below1k" exchanged
parse_single_input_and_exchanged(k) ==
    IF k = "none" THEN AndOption("None")
    ELSE IF k = "last" THEN AndOption("OnlyUnderThousand")
    ELSE IF k = "below1k" THEN AndOption("LastGroup")
    ELSE IF k = "all" THEN AndOption("All")
    ELSE Error("Invalid \"and\" option: " \o k)

\* match &cleaned[6..] { "none" => .., "last" => .., "below1k" => ..,
\*                       "all" => .., k => Error(..) }
parse_single_input_and(k) ==
    IF k = "none" THEN AndOption("None")
    ELSE IF k = "last" THEN AndOption("LastGroup")
    ELSE IF k = "below1k" THEN AndOption("OnlyUnderThousand")
    ELSE IF k = "all" THEN AndOption("All")
    ELSE Error("Invalid \"and\" option: " \o k)

\* a bug parse_single_input could have: the messages built from the
\* lowercased text
parse_single_input_number_lowercased(cleaned, text) ==
    LET n_text == ascii_digits(cleaned)
    IN  IF n_text = "" THEN Error("Invalid input: " \o cleaned)
        ELSE IF parse_u64(n_text).tag = "Ok" THEN ToConvert(parse_u64(n_text).val)
        ELSE Error("Too big: " \o cleaned)

\* the branch of an argument that is not an option
parse_single_input_number(cleaned, text) ==
    LET n_text == ascii_digits(cleaned)
    IN  IF n_text = "" THEN Error("Invalid input: " \o text)
        ELSE IF parse_u64(n_text).tag = "Ok" THEN ToConvert(parse_u64(n_text).val)
        ELSE Error("Too big: " \o text)

\* the branch of an argument longer than 2 that starts with "--"; the slices
\* are taken in the order of the source, and &cleaned[2..6] is taken only
\* when none of the three comparisons before it held
parse_single_input_option(cleaned) ==
    IF SliceFrom(cleaned, 2).val = "help" THEN Help
    ELSE IF SliceFrom(cleaned, 2).val = "and-help" THEN AndHelp
    ELSE IF SliceFrom(cleaned, 2).val = "minimal" THEN MinimalOutput
    ELSE IF Slice(cleaned, 2, 6).tag = "Panic" THEN Fault(Slice(cleaned, 2, 6).val)
    ELSE IF Slice(cleaned, 2, 6).val = "and=" THEN parse_single_input_and(SliceFrom(cleaned, 6).val)
    ELSE Error("Invalid option " \o cleaned)

parse_single_input(text) ==
    LET cleaned == to_lowercase(text)
    IN  IF Len(cleaned) > 2 /\ SliceTo(cleaned, 2).val = "--"
        THEN parse_single_input_option(cleaned)
        ELSE parse_single_input_number(cleaned, text)

(* ------------------------- process_input: Config ----------------------- *)

\* enum OutputComponent
OutputToConvert(n, b) == [kind |-> "ToConvert", value |-> n, and_behavior |-> b]
OutputError(msg) == [kind |-> "Error", msg |-> msg]

\* a bug Config::parse could have: the first --and= option wins
and_behavior_of_first(input_cmpts) ==
    LET opts == {k \in 1..Len(input_cmpts) : input_cmpts[k].kind = "AndOption"}
    IN  IF opts = {} THEN "All"
        ELSE input_cmpts[CHOOSE k \in opts : \A j \in opts : k <= j].and_behavior

\* let mut and_behavior = AndBehavior::All; for k in input_cmpts { match k {
\*     AndOption(k) => and_behavior = k, .. } }: the last assignment stays
and_behavior_of(input_cmpts) ==
    LET opts == {k \in 1..Len(input_cmpts) : input_cmpts[k].kind = "AndOption"}
    IN  IF opts = {} THEN "All"
        ELSE input_cmpts[CHOOSE k \in opts : \A j \in opts : j <= k].and_behavior

\* the flag a component of the given kind sets in the loop
flag_of(input_cmpts, kind) == \E k \in 1..Len(input_cmpts) : input_cmpts[k].kind = kind

\* input_cmpts.iter().map(..).filter(|x| x.is_some()).map(|x| x.unwrap())
output_components_of(input_cmpts, and_behavior) ==
    LET Keep(c) == c.kind \in {"ToConvert", "Error"}
        kept == SelectSeq(input_cmpts, Keep)
    IN  [k \in 1..Len(kept) |->
            IF kept[k].kind = "ToConvert"
            THEN OutputToConvert(kept[k].value, and_behavior)
            ELSE OutputError(kept[k].msg)]

\* Config::parse: Ok(the Config), or the panic of args[0] on an empty list or
\* of the first argument on which parse_single_input panics
Config_parse(args_) ==
    IF Len(args_) = 0 THEN Panic("index out of bounds")
    ELSE IF Len(args_) < 2
    THEN Ok([output_components |->
                Err("No arguments. For help, run:\n$ " \o args_[1] \o " --help"),
             help |-> FALSE,
             and_help |-> FALSE,
             minimal_output |-> FALSE,
             prog_name |-> args_[1]])
    ELSE LET input_cmpts == [k \in 1..(Len(args_) - 1) |-> parse_single_input(args_[k + 1])]
             faults == {k \in 1..Len(input_cmpts) : input_cmpts[k].kind = "Panic"}
         IN  IF faults # {}
             THEN Panic(input_cmpts[CHOOSE k \in faults : \A j \in faults : k <= j].msg)
             ELSE Ok([output_components |->
                         Ok(output_components_of(input_cmpts, and_behavior_of(input_cmpts))),
                      help |-> flag_of(input_cmpts, "Help"),
                      and_help |-> flag_of(input_cmpts, "AndHelp"),
                      minimal_output |-> flag_of(input_cmpts, "MinimalOutput"),
                      prog_name |-> args_[1]])

RECURSIVE Config_process(_)

\* a bug Config::process could have: the numeral written even with --minimal
Config_process_line_with_numeral(self, c) ==
    format(<<Ok(u64_to_string(c.value) \o ": "),
             to_word(c.value, c.and_behavior)>>)

\* the line of one number: format!("{}{}", if self.minimal_output { "" } else
\* { format!("{}: ", value) }, to_word(*value, *and_behavior))
Config_process_line(self, c) ==
    format(<<Ok(IF self.minimal_output THEN "" ELSE u64_to_string(c.value) \o ": "),
             to_word(c.value, c.and_behavior)>>)

\* args.join(" ") then Config::parse(args).process()
example_session(inputs, prog_name) ==
    LET args_ == <<prog_name>> \o inputs
        command_line == join(args_, " ")
        parsed == Config_parse(args_)
    IN  format(<<Ok("$ "), Ok(command_line), Ok("\n"),
                 IF parsed.tag = "Ok" THEN Config_process(parsed.val) ELSE parsed>>)

(* ------------------------- process_input: help ------------------------- *)

COPYRIGHT_INFO ==
    "Copyright © 2023 Christopher Phan\n"
    \o "https://chrisphan.com/\n"
    \o "Licensed under MIT or APACHE 2.0"

and_help ==
    "\"and\" options:\n"
    \o "-------------------------------------------------------------------\n"
    \o "    --and=none           Don't use the word \"and\"\n"
    \o "                         (e.g. \"five-hundred seventy-two\")\n"
    \o "\n"
    \o "    --and=last           Only use the word \"and\" in the\n"
    \o "                         hundreds-tens-units group\n"
    \o "                         (e.g. \"three-hundred five thousand,\n"
    \o "                                five-hundred and seventy-two\",\n"
    \o "                         but \"three-hundred five million,\n"
    \o "                              five-hundred seventy-two thousand\")\n"
    \o "\n"
    \o "    --and=below1k        Only use the word \"and\" for numbers below 1000\n"
    \o "                         (e.g. \"three-hundred five thousand,\n"
    \o "                                five-hundred seventy-two\",\n"
    \o "                         but \"three-hundred and five\")\n"
    \o "\n"
    \o "    --and=all            Always use \"and\" (default behavior)\n"
    \o "                         (e.g. \"five-hundred and twenty-four million,\n"
    \o "                                three-hundred and seventy-eight\")\n"

\* help_text's format string before the 1st {}
help_text_part1 ==
    "numbers_into_words: Converts positive integers to words\n"

\* help_text's format string between the 1st and the 2nd {}
help_text_part2 ==
    "\n"
    \o "-------------------------------------------------------\n"
    \o "\n"
    \o "Usage: "

\* help_text's format string between the 2nd and the 3rd {}
help_text_part3 ==
    " [OPTIONS] [NUMBERS]\n"
    \o "\n"
    \o "Options:\n"
    \o "  --help                 Display this help message\n"
    \o "\n"
    \o "  --and=(none | last | below1k | all )\n"
    \o "\n"
    \o "                         Specify when the word \"and\"\n"
    \o "                         should be used in phrases like\n"
    \o "                         \"five-hundred and seventy-two\"\n"
    \o "\n"
    \o "  --and-help             Describe the options for --and=\n"
    \o "\n"
    \o "  --minimal              Output only the words for each\n"
    \o "                         number (rather than prefacing\n"
    \o "                         with the numerals, e.g. \"five\"\n"
    \o "                         instead of \"5: five\")\n"
    \o "\n"
    \o "Examples:\n"
    \o "\n"

\* help_text's format string between the 3rd and the 4th {}
help_text_part4 ==
    "\n"

\* help_text's format string between the 4th and the 5th {}
help_text_part5 ==
    "\n"
    \o "\n"
    \o "Note: maximum value supported is "

\* format!(.., COPYRIGHT_INFO, prog_name, example_session(..),
\*         example_session(..), u64::MAX)
help_text(prog_name) ==
    format(<<Ok(help_text_part1), Ok(COPYRIGHT_INFO),
             Ok(help_text_part2), Ok(prog_name),
             Ok(help_text_part3), example_session(<<"234", "409_343", "305814">>, prog_name),
             Ok(help_text_part4),
             example_session(<<"--and=last", "--minimal", "234", "409_343", "305814">>,
                             prog_name),
             Ok(help_text_part5), Ok(u64_to_string(U64Max))>>)

\* Config::process on a Config whose output_components is Ok(cmpts)
Config_process_components(self, cmpts) ==
    LET IsValid(c) == c.kind = "ToConvert"
        IsError(c) == c.kind = "Error"
        valid_cmpts == SelectSeq(cmpts, IsValid)
        error_cmpts == SelectSeq(cmpts, IsError)
        valid_vec == [k \in 1..Len(valid_cmpts) |-> Config_process_line(self, valid_cmpts[k])]
        error_vec == [k \in 1..Len(error_cmpts) |-> error_cmpts[k].msg]
        valid == Len(valid_cmpts) > 0
        errors == Len(error_cmpts) > 0
        bad == {k \in 1..Len(valid_vec) : valid_vec[k].tag # "Ok"}
        valid_conversions ==
            (IF Len(valid_vec) # 0 /\ self.help THEN "\n---\n\n" ELSE "")
            \o join([k \in 1..Len(valid_vec) |-> valid_vec[k].val], "\n")
            \o (IF valid /\ errors THEN "\n" ELSE "")
        errors_text ==
            IF Len(error_vec) # 0
            THEN "Errors\n-----\n" \o join(error_vec, "\n")
            ELSE ""
    IN  IF bad # {}
        THEN valid_vec[CHOOSE k \in bad : \A j \in bad : k <= j]
        ELSE format(<<IF self.help THEN help_text(self.prog_name) ELSE Ok(""),
                      Ok(IF self.and_help THEN and_help ELSE ""),
                      Ok(valid_conversions),
                      Ok(errors_text),
                      Ok(IF Len(error_vec) # 0 /\ ~valid /\ ~self.help
                         THEN "\nFor help, run: " \o self.prog_name \o " --help"
                         ELSE "")>>)

\* a bug Config::process could have: the message of a Config without
\* arguments printed as an error block
Config_process_err_in_block(self) ==
    IF self.output_components.tag = "Err"
    THEN Ok("Errors\n-----\n" \o self.output_components.val)
    ELSE Config_process_components(self, self.output_components.val)

\* Config::process: the text to print, or the panic of a conversion
Config_process(self) ==
    IF self.output_components.tag = "Err"
    THEN Ok(self.output_components.val)
    ELSE Config_process_components(self, self.output_components.val)

(* ------------------------------ inputs --------------------------------- *)

\* arguments of the helpers: the whole domain 0..999 and values beyond it
HelperArgs == 0..MaxHelperArg

GroupIndexes == 0..6

\* one nonzero 3-digit group of every shape the rendering distinguishes: a
\* digit, a teen, a multiple of ten, a multiple of 100, and hundreds with a
\* units, a tens and a tens-units remainder
GroupSamples == {7, 14, 60, 300, 101, 430, 999}

\* lo + mid*10^9 + hi*10^18 from the seven groups g[0] (units) .. g[6]
U64FromGroups(g) ==
    <<g[0] + 1000 * g[1] + 1000000 * g[2],
      g[3] + 1000 * g[4] + 1000000 * g[5],
      g[6]>>

SparseGroups ==
    UNION {
        {[i \in GroupIndexes |-> IF i \in S THEN f[i] ELSE 0] :
            f \in [S -> GroupSamples]} :
        S \in {T \in SUBSET GroupIndexes : Cardinality(T) <= MaxNonzeroGroups}}

\* values the crate's tests convert
TestValues ==
    { U64Max,
      <<456789012, 654123, 17>>,       \* 17_654_123_456_789_012_345
      <<789012345, 123456, 0>>,        \* 123_456_789_012_345
      <<1019, 14, 0>>,                 \* 14_000_001_019
      <<175999, 4, 0>>,                \* 4_000_175_999
      <<530175999, 4, 0>>,             \* 4_530_175_999
      <<530175999, 0, 0>>,
      <<530175000, 0, 0>>,
      <<350000000, 0, 0>>,
      <<350000430, 0, 0>>,
      <<330759736, 0, 0>>,
      <<200105, 0, 0>>,
      <<243921, 1263953, 0>>,          \* 1_263_953_243_921
      <<234924233, 5234, 0>> }         \* 5_234_234_924_233

\* every thousands group 1..999, over an empty units group and over units
\* groups below and above 100
ThousandsValues ==
    {U64FromNat(1000 * g + u) : g \in 1..999, u \in {0, 7, 430}}

ToWordInputs ==
    {x \in {U64FromNat(n) : n \in 0..MaxDense}
           \cup ThousandsValues
           \cup {U64FromGroups(g) : g \in SparseGroups}
           \cup TestValues : IsU64(x)}

\* full values handed to the helpers: below, at and above the 0..=999 pattern
FullValues == {U64FromNat(999), U64FromNat(1000), <<234924233, 5234, 0>>}

(* --------------------------- command line ------------------------------ *)

\* args[0]
ProgName == "program_name"

\* arguments handed to parse_single_input: numbers with and without
\* separators, below, at and above u64::MAX, texts without digits, the four
\* flags, valid and invalid --and= options in several letter cases, and
\* unknown flags of every length from 3
ArgTexts ==
    { "42", "1", "0", "007", "-5", "523_972", "4x3x5x2xyz", "409_343",
      "18446744073709551615", "18446744073709551616",
      "1_000_000_000_000_000_000_000",
      "", "-", "--", "asfskajlas", "Forty",
      "--help", "--HELP", "--and-help", "--And-Help", "--minimal", "--MINIMAL",
      "--and=none", "--and=last", "--and=below1k", "--and=all",
      "--AND=None", "--and=LAST", "--And=Below1K", "--and=ALL",
      "--and=", "--and=Foo", "--and=nonex", "--and=no", "--AND=LASTS",
      "--x", "--Y", "--he", "--hel", "--and", "--ands", "--helpx",
      "--asfskajlas", "--Verbose", "--1",
      "000000000000000000000042", "No.7", "99999999999999999999" }

\* the arguments the lists given to Config::parse are made of
ArgSamples ==
    { "42", "409_343", "asfskajlas",
      "--help", "--and-help", "--minimal",
      "--and=last", "--AND=None", "--and=Foo", "--x" }

\* the program name followed by at most MaxArgs arguments, another program
\* name alone, and the empty list
ArgLists ==
    {<<>>, <<"blahblah">>} \cup
    UNION {{<<ProgName>> \o a : a \in [1..n -> ArgSamples]} : n \in 0..MaxArgs}

(* ------------------------------ the machine ---------------------------- *)

NoResult == [tag |-> "None", val |-> ""]

NoComponent == [kind |-> "None"]

Init ==
    /\ fn = "idle"
    /\ arg = 0
    /\ group = 0
    /\ policy = "All"
    /\ value = U64FromNat(0)
    /\ result = NoResult
    /\ args = <<>>
    /\ component = NoComponent
    /\ config = NoResult
    /\ output = NoResult

CallSingleDigit ==
    /\ fn = "idle"
    /\ \E x \in HelperArgs :
        /\ fn' = "single_digit"
        /\ arg' = x
        /\ result' = single_digit(x)
    /\ UNCHANGED <<group, policy, value>>
    /\ UNCHANGED cli_vars

CallUnder100 ==
    /\ fn = "idle"
    /\ \E x \in HelperArgs :
        /\ fn' = "under_100"
        /\ arg' = x
        /\ result' = under_100(x)
    /\ UNCHANGED <<group, policy, value>>
    /\ UNCHANGED cli_vars

CallUnder1000 ==
    /\ fn = "idle"
    /\ \E x \in HelperArgs, g \in GroupIndexes, p \in AndBehavior, v \in FullValues :
        /\ fn' = "under_1000"
        /\ arg' = x
        /\ group' = g
        /\ policy' = p
        /\ value' = v
        /\ result' = under_1000(x, g, p, v)
    /\ UNCHANGED cli_vars

CallInsertAnd ==
    /\ fn = "idle"
    /\ \E g \in GroupIndexes, p \in AndBehavior,
          v \in FullValues \cup TestValues \cup {U64FromNat(432)} :
        /\ fn' = "insert_and"
        /\ group' = g
        /\ policy' = p
        /\ value' = v
        /\ result' = Ok(insert_and(p, g, v))
    /\ UNCHANGED arg
    /\ UNCHANGED cli_vars

CallToWord ==
    /\ fn = "idle"
    /\ \E x \in ToWordInputs, p \in AndBehavior :
        /\ fn' = "to_word"
        /\ policy' = p
        /\ value' = x
        /\ result' = to_word(x, p)
    /\ UNCHANGED <<arg, group>>
    /\ UNCHANGED cli_vars

Next ==
    \/ CallSingleDigit
    \/ CallUnder100
    \/ CallUnder1000
    \/ CallInsertAnd
    \/ CallToWord

Spec == Init /\ [][Next]_vars

\* the calls of the public function alone
NextToWord == CallToWord

SpecToWord == Init /\ [][NextToWord]_vars

CallParseSingleInput ==
    /\ fn = "idle"
    /\ \E text \in ArgTexts :
        /\ fn' = "parse_single_input"
        /\ args' = <<text>>
        /\ component' = parse_single_input(text)
    /\ UNCHANGED <<config, output>>
    /\ UNCHANGED conv_vars

CallConfigParse ==
    /\ fn = "idle"
    /\ \E a \in ArgLists :
        /\ fn' = "Config::parse"
        /\ args' = a
        /\ config' = Config_parse(a)
    /\ UNCHANGED <<component, output>>
    /\ UNCHANGED conv_vars

\* config.process() on the Config that Config::parse returned
CallConfigProcess ==
    /\ fn = "Config::parse"
    /\ config.tag = "Ok"
    /\ fn' = "Config::process"
    /\ output' = Config_process(config.val)
    /\ UNCHANGED <<args, component, config>>
    /\ UNCHANGED conv_vars

NextCli ==
    \/ CallParseSingleInput
    \/ CallConfigParse
    \/ CallConfigProcess

SpecCli == Init /\ [][NextCli]_vars

(* ------------------------------ text ----------------------------------- *)

\* the positions at which sub occurs in s
Occurrences(s, sub) ==
    {i \in 1..(Len(s) - Len(sub) + 1) : SubSeq(s, i, i + Len(sub) - 1) = sub}

Contains(s, sub) == Occurrences(s, sub) # {}

U64Zero == U64FromNat(0)

\* x < 1000 on a u64
Below1000(x) == x[3] = 0 /\ x[2] = 0 /\ x[1] < 1000

(* ------------------------------ claims --------------------------------- *)

\* (x / 1000^i) % 1000, the i-th 3-digit group of x: three groups to a limb
GroupOf(x, i) == (x[(i \div 3) + 1] \div (1000^(i % 3))) % 1000

SuffixTable ==
    <<"", " thousand", " million", " billion", " trillion", " quadrillion",
      " quintillion">>

\* the groups i, i-1, .., 0 of x rendered and joined, most significant first
RECURSIVE ReferenceRendering(_, _, _)
ReferenceRendering(x, p, i) ==
    LET g == GroupOf(x, i)
        piece == under_1000(g, i, p, x).val \o SuffixTable[i + 1]
        rest == IF i = 0 THEN "" ELSE ReferenceRendering(x, p, i - 1)
    IN  IF g = 0 THEN rest
        ELSE IF rest = "" THEN piece
        ELSE piece \o ", " \o rest

\* C1: for every nonzero x and every policy, to_word(x, policy) is the
\* reference rendering: the groups (x / 1000^i) % 1000 for i from 6 down to 0,
\* the zero ones dropped, each rendered by under_1000(group, i, policy, x)
\* followed by the i-th suffix, joined most-significant first with ", ".
C1_ToWordIsReferenceRendering ==
    (fn = "to_word" /\ value # U64Zero)
        => result = Ok(ReferenceRendering(value, policy, 6))

C1_Witness ==
    /\ fn = "to_word"
    /\ value = <<1019, 14, 0>>
    /\ policy = "All"
    /\ result = Ok("fourteen billion, one thousand, nineteen")

\* C2: to_word(0, policy) is exactly "zero" for each of the four policies.
C2_ZeroIsZero ==
    (fn = "to_word" /\ value = U64Zero) => result = Ok("zero")

C2_Witness ==
    /\ fn = "to_word"
    /\ value = U64Zero
    /\ policy = "LastGroup"
    /\ result = Ok("zero")

DigitWords ==
    <<"zero", "one", "two", "three", "four", "five", "six", "seven", "eight",
      "nine">>

\* C3: for every v in 0..=9 and every policy, to_word(v, policy) is the exact
\* digit word, the same for all four policies.
C3_DigitsAreDigitWords ==
    (fn = "to_word" /\ value[3] = 0 /\ value[2] = 0 /\ value[1] \in 0..9)
        => result = Ok(DigitWords[value[1] + 1])

C3_Witness ==
    /\ fn = "to_word"
    /\ value = U64FromNat(7)
    /\ policy = "OnlyUnderThousand"
    /\ result = Ok("seven")

IrregularWords ==
    [v \in {10, 11, 12, 13, 15, 18, 20, 30, 40, 50, 80} |->
        CASE v = 10 -> "ten"
          [] v = 11 -> "eleven"
          [] v = 12 -> "twelve"
          [] v = 13 -> "thirteen"
          [] v = 15 -> "fifteen"
          [] v = 18 -> "eighteen"
          [] v = 20 -> "twenty"
          [] v = 30 -> "thirty"
          [] v = 40 -> "forty"
          [] v = 50 -> "fifty"
          [] v = 80 -> "eighty"]

\* the fixed English form of v in 10..99
RECURSIVE EnglishUnder100(_)
EnglishUnder100(v) ==
    IF v \in DOMAIN IrregularWords THEN IrregularWords[v]
    ELSE IF v \in {14, 16, 17, 19} THEN DigitWords[(v % 10) + 1] \o "teen"
    ELSE IF v \in {60, 70, 90} THEN DigitWords[(v \div 10) + 1] \o "ty"
    ELSE EnglishUnder100(v - (v % 10)) \o "-" \o DigitWords[(v % 10) + 1]

\* C4: for every v in 10..=99, under_100(v) returns the fixed English form:
\* the irregular words for 10, 11, 12, 13, 15, 18, 20, 30, 40, 50, 80;
\* digitWord+"teen" for 14, 16, 17, 19; digitWord+"ty" for 60, 70, 90; and
\* tensWord+"-"+unitsWord for every other value in 21..=99.
C4_Under100FixedForms ==
    (fn = "under_100" /\ arg \in 10..99) => result = Ok(EnglishUnder100(arg))

C4_Witness ==
    /\ fn = "under_100"
    /\ arg = 97
    /\ result = Ok("ninety-seven")

\* C5: for every x in 101..=999 that is not a multiple of 100, and every group
\* index, policy and full value, under_1000(x, group, policy, full) is the
\* rendering of the hundreds part x - x%100, then policy.insert_and(group,
\* full) (either " and " or " "), then under_100(x % 100).
C5_Under1000Composition ==
    (fn = "under_1000" /\ arg \in 101..999 /\ arg % 100 # 0)
        => /\ result = Ok(DigitWords[(arg \div 100) + 1] \o "-hundred"
                          \o insert_and(policy, group, value)
                          \o under_100(arg % 100).val)
           /\ result = Ok(under_1000(arg - (arg % 100), group, policy, value).val
                          \o insert_and(policy, group, value)
                          \o under_100(arg % 100).val)
           /\ under_100(arg % 100).tag = "Ok"
           /\ insert_and(policy, group, value) \in {" and ", " "}

C5_Witness ==
    /\ fn = "under_1000"
    /\ arg = 247
    /\ group = 1
    /\ policy = "LastGroup"
    /\ result = Ok("two-hundred forty-seven")

\* C6: for every exact multiple of 100 x in 100..=900 and every group index,
\* policy and full value, under_1000 returns digitWord(x/100)+"-hundred" with
\* nothing after it: no conjunction, no trailing space, no "zero".
C6_ExactHundreds ==
    (fn = "under_1000" /\ arg \in 100..900 /\ arg % 100 = 0)
        => result = Ok(DigitWords[(arg \div 100) + 1] \o "-hundred")

C6_Witness ==
    /\ fn = "under_1000"
    /\ arg = 300
    /\ group = 0
    /\ policy = "All"
    /\ value = U64FromNat(999)
    /\ result = Ok("three-hundred")

\* C7, as claimed: insert_and under OnlyUnderThousand returns " and " exactly
\* when the group index is 0 and the full value is below 1000; for every
\* nonzero group index it returns " " whatever the full value is.
C7_AsClaimed ==
    (fn = "insert_and" /\ policy = "OnlyUnderThousand")
        => /\ result.val = " and " <=> (group = 0 /\ Below1000(value))
           /\ group # 0 => result.val = " "

\* C7, amended: insert_and under OnlyUnderThousand returns " and " exactly
\* when the full value is below 1000, whatever the group index, and " "
\* otherwise; for a nonzero group index it returns " " whenever the full value
\* is at least 1000, which is so for every group to_word hands to under_1000.
C7_UnderThousandByValueOnly ==
    /\ (fn = "insert_and" /\ policy = "OnlyUnderThousand")
        => /\ result.val = " and " <=> Below1000(value)
           /\ result.val \in {" and ", " "}
           /\ (group # 0 /\ ~Below1000(value)) => result.val = " "
    /\ fn = "to_word"
        => \A k \in 1..Len(to_word_kept(value)) :
            LET t == to_word_kept(value)[k]
            IN  t[2] # 0 =>
                    /\ ~Below1000(t[3])
                    /\ insert_and("OnlyUnderThousand", t[2], t[3]) = " "

C7_Witness ==
    /\ fn = "insert_and"
    /\ policy = "OnlyUnderThousand"
    /\ group = 4
    /\ value = U64FromNat(432)
    /\ result = Ok(" and ")

\* C8: for every group index and full value, insert_and returns " " under
\* None, " and " under All, and under LastGroup " and " when the group index
\* is 0 and " " otherwise, independent of the full value.
C8_InsertAndOtherPolicies ==
    fn = "insert_and"
        => /\ policy = "None" => result = Ok(" ")
           /\ policy = "All" => result = Ok(" and ")
           /\ policy = "LastGroup"
                => result = Ok(IF group = 0 THEN " and " ELSE " ")

C8_Witness ==
    /\ fn = "insert_and"
    /\ policy = "LastGroup"
    /\ group = 4
    /\ value = <<234924233, 5234, 0>>
    /\ result = Ok(" ")

\* C9: for every x, to_word(x, LastGroup) contains " and " at most once, and
\* contains it exactly when the units group x % 1000 is in 101..=999 and not
\* a multiple of 100; the conjunction then lies in the last rendered group
\* (after every ", "), and every higher group uses a plain space.
C9_LastGroupConjunction ==
    (fn = "to_word" /\ policy = "LastGroup")
        => LET ands == Occurrences(result.val, " and ")
               commas == Occurrences(result.val, ", ")
               units == value[1] % 1000
           IN  /\ result.tag = "Ok"
               /\ Cardinality(ands) <= 1
               /\ ands # {} <=> (units \in 101..999 /\ units % 100 # 0)
               /\ \A i \in ands : \A j \in commas : j < i

C9_Witness ==
    /\ fn = "to_word"
    /\ policy = "LastGroup"
    /\ value = <<330759736, 0, 0>>
    /\ result = Ok("three-hundred thirty million, seven-hundred fifty-nine thousand, seven-hundred and thirty-six")

\* C10: for every x, to_word(x, OnlyUnderThousand) contains " and " only if
\* x < 1000; for every x >= 1000, including values with exactly one nonzero
\* group, every group uses a plain space.
C10_UnderThousandConjunction ==
    (fn = "to_word" /\ policy = "OnlyUnderThousand")
        => /\ result.tag = "Ok"
           /\ Contains(result.val, " and ") => Below1000(value)
           /\ ~Below1000(value) => Occurrences(result.val, " and ") = {}

C10_Witness ==
    /\ fn = "to_word"
    /\ policy = "OnlyUnderThousand"
    /\ value = U64FromGroups([i \in GroupIndexes |-> IF i = 2 THEN 430 ELSE 0])
    /\ result = Ok("four-hundred thirty million")

\* C11: for every x and every policy, to_word(x, policy) never triggers an
\* internal range violation: every group value handed to under_1000 is in
\* 1..=999, every group index is in 0..=6 (a valid index of the 7-entry suffix
\* table), every argument reaching under_100 is in 0..=99 and every argument
\* reaching single_digit is in 0..=9, so no expect/panic fires.
C11_NoInternalRangeViolation ==
    fn = "to_word"
        => /\ result.tag = "Ok"
           /\ \A c \in to_word_calls(value) :
                /\ c[1] = "under_1000" => c[2] \in 0..999
                /\ c[1] = "POWERS_THOUSAND"
                    => c[2] \in 0..6 /\ c[2] + 1 \in DOMAIN POWERS_THOUSAND
                /\ c[1] = "under_100" => c[2] \in 0..99
                /\ c[1] = "single_digit" => c[2] \in 0..9
           /\ \A k \in 1..Len(to_word_kept(value)) :
                to_word_kept(value)[k][1] \in 1..999

C11_Witness ==
    /\ fn = "to_word"
    /\ value = U64Max
    /\ policy = "None"
    /\ result.tag = "Ok"
    /\ <<"under_1000", 709>> \in to_word_calls(value)
    /\ <<"under_1000", 700>> \in to_word_calls(value)
    /\ <<"under_100", 9>> \in to_word_calls(value)
    /\ <<"POWERS_THOUSAND", 6>> \in to_word_calls(value)

\* the words of a text: the maximal runs of characters other than " ", "-"
\* and ","
RECURSIVE WordsFrom(_, _)
WordsFrom(s, i) ==
    LET IsSep(j) == SubSeq(s, j, j) \in {" ", "-", ","}
    IN  IF \A j \in i..Len(s) : IsSep(j) THEN <<>>
        ELSE LET b == CHOOSE j \in i..Len(s) :
                        ~IsSep(j) /\ \A k \in i..(j - 1) : IsSep(k)
                 e == CHOOSE j \in b..Len(s) :
                        /\ j = Len(s) \/ IsSep(j + 1)
                        /\ \A k \in b..j : ~IsSep(k)
             IN  <<SubSeq(s, b, e)>> \o WordsFrom(s, e + 1)

SplitWords(s) == WordsFrom(s, 1)

NumberWords ==
    <<"one", "two", "three", "four", "five", "six", "seven", "eight", "nine",
      "ten", "eleven", "twelve", "thirteen", "fourteen", "fifteen", "sixteen",
      "seventeen", "eighteen", "nineteen">>

TensWords ==
    <<"ten", "twenty", "thirty", "forty", "fifty", "sixty", "seventy",
      "eighty", "ninety">>

MagnitudeWords ==
    <<"thousand", "million", "billion", "trillion", "quadrillion",
      "quintillion">>

IndexIn(words, w) == CHOOSE k \in 1..Len(words) : words[k] = w

IsIn(words, w) == \E k \in 1..Len(words) : words[k] = w

\* Reading English numeral words back: st.cur is the group being read and
\* st.groups the groups already closed by their magnitude word.
ReadWord(st, w) ==
    IF w = "and" \/ w = "zero" THEN st
    ELSE IF w = "hundred" THEN [st EXCEPT !.cur = st.cur * 100]
    ELSE IF IsIn(NumberWords, w)
        THEN [st EXCEPT !.cur = st.cur + IndexIn(NumberWords, w)]
    ELSE IF IsIn(TensWords, w)
        THEN [st EXCEPT !.cur = st.cur + 10 * IndexIn(TensWords, w)]
    ELSE IF IsIn(MagnitudeWords, w)
        THEN [groups |-> [st.groups EXCEPT ![IndexIn(MagnitudeWords, w)] = st.cur],
              cur |-> 0,
              ok |-> st.ok]
    ELSE [st EXCEPT !.ok = FALSE]

RECURSIVE ReadWords(_, _)
ReadWords(st, words) ==
    IF words = <<>> THEN st ELSE ReadWords(ReadWord(st, Head(words)), Tail(words))

\* the number a text of English numeral words stands for, as a u64; <<>> when
\* the text holds a word that is none
WordsToNumber(s) ==
    LET st == ReadWords([groups |-> [i \in 0..6 |-> 0], cur |-> 0, ok |-> TRUE],
                        SplitWords(s))
    IN  IF st.ok /\ st.cur <= 999
        THEN U64FromGroups([st.groups EXCEPT ![0] = st.cur])
        ELSE <<>>

\* C12: lossless rendering: for every policy and every pair of values x and y,
\* to_word(x, policy) = to_word(y, policy) implies x = y. Checked in the form
\* that gives it: the value is read back from the text alone, so two values
\* with the same text are the same value.
C12_ValueReadBackFromText ==
    fn = "to_word"
        => /\ result.tag = "Ok"
           /\ WordsToNumber(result.val) = value

C12_Witness ==
    /\ fn = "to_word"
    /\ value = <<1019, 14, 0>>
    /\ policy = "LastGroup"
    /\ result = Ok("fourteen billion, one thousand, nineteen")
    /\ WordsToNumber("fourteen billion, one thousand, nineteen") = <<1019, 14, 0>>

\* the pieces of a text between its separators ", "
PiecesOf(s) ==
    LET commas == Occurrences(s, ", ")
        n == Cardinality(commas)
        NthComma(k) == CHOOSE i \in commas : Cardinality({j \in commas : j < i}) = k - 1
        From(k) == IF k = 1 THEN 1 ELSE NthComma(k - 1) + 2
        To(k) == IF k = n + 1 THEN Len(s) ELSE NthComma(k) - 1
    IN  [k \in 1..(n + 1) |-> SubSeq(s, From(k), To(k))]

NonzeroGroupIndexes(x) == {i \in 0..6 : GroupOf(x, i) # 0}

\* the k-th largest index of a nonzero group of x
NthNonzeroGroup(x, k) ==
    CHOOSE i \in NonzeroGroupIndexes(x) :
        Cardinality({j \in NonzeroGroupIndexes(x) : j > i}) = k - 1

EndsWith(s, t) == Len(t) <= Len(s) /\ SubSeq(s, Len(s) - Len(t) + 1, Len(s)) = t

\* C13: for every v >= 1000 and every policy, the number of ", "-separated
\* pieces in to_word(v, policy) equals the number of nonzero 3-digit groups of
\* v, and the pieces appear most-significant group first: the k-th piece
\* carries the suffix of the k-th highest nonzero group and reads back as that
\* group alone (zero groups in the middle produce no piece and no comma).
C13_OnePiecePerNonzeroGroup ==
    (fn = "to_word" /\ ~Below1000(value))
        => LET pieces == PiecesOf(result.val)
           IN  /\ result.tag = "Ok"
               /\ Len(pieces) = Cardinality(NonzeroGroupIndexes(value))
               /\ \A k \in 1..Len(pieces) :
                    LET i == NthNonzeroGroup(value, k)
                    IN  /\ EndsWith(pieces[k], SuffixTable[i + 1])
                        /\ WordsToNumber(pieces[k])
                            = U64FromGroups([j \in 0..6 |->
                                IF j = i THEN GroupOf(value, i) ELSE 0])

C13_Witness ==
    /\ fn = "to_word"
    /\ value = <<175999, 4, 0>>
    /\ policy = "All"
    /\ PiecesOf(result.val)
        = <<"four billion", "one-hundred and seventy-five thousand",
            "nine-hundred and ninety-nine">>

\* x < 1_000_000 on a u64
Below1000000(x) == x[3] = 0 /\ x[2] = 0 /\ x[1] < 1000000

\* C14: for every v in 0..=999_999 and every policy, to_word(v, policy) has no
\* two consecutive spaces, neither begins nor ends with a space or a comma,
\* and, when v is nonzero, contains exactly (number of nonzero groups - 1)
\* commas.
C14_NoStraySeparators ==
    (fn = "to_word" /\ Below1000000(value))
        => /\ result.tag = "Ok"
           /\ Len(result.val) > 0
           /\ ~Contains(result.val, "  ")
           /\ SubSeq(result.val, 1, 1) \notin {" ", ","}
           /\ SubSeq(result.val, Len(result.val), Len(result.val)) \notin {" ", ","}
           /\ value # U64Zero
                => Cardinality(Occurrences(result.val, ","))
                    = Cardinality(NonzeroGroupIndexes(value)) - 1

C14_Witness ==
    /\ fn = "to_word"
    /\ value = U64FromNat(999430)
    /\ policy = "LastGroup"
    /\ result = Ok("nine-hundred ninety-nine thousand, four-hundred and thirty")
    /\ Cardinality(Occurrences(result.val, ",")) = 1

\* C15: at the upper bound of the domain, to_word(18_446_744_073_709_551_615,
\* All) is the text below, and the divisor 10^(3*i) taken for each of the
\* seven groups never exceeds 10^18 and so is a 64-bit unsigned value.
C15_MaxValueRenderedWithoutOverflow ==
    (fn = "to_word" /\ value = U64Max /\ policy = "All")
        => /\ result = Ok("eighteen quintillion, four-hundred and forty-six quadrillion, seven-hundred and forty-four trillion, seventy-three billion, seven-hundred and nine million, five-hundred and fifty-one thousand, six-hundred and fifteen")
           /\ \A y \in 0..6 :
                /\ to_word_exponent(y) \in 0..18
                /\ U64Le(Pow10(to_word_exponent(y)), Pow10(18))
                /\ IsU64(Pow10(to_word_exponent(y)))

C15_Witness ==
    /\ fn = "to_word"
    /\ value = U64Max
    /\ policy = "All"
    /\ result.tag = "Ok"
    /\ Pow10(to_word_exponent(0)) = <<0, 0, 1>>
    /\ ~IsU64(Pow10(20))

\* C16: under_100(x) returns an error result (Err: not a string and not a
\* fault) for every x > 99.
C16_AsClaimed ==
    (fn = "under_100" /\ arg > 99) => result.tag = "Err"

\* what the code does instead: a multiple of ten above 99 is taken by the arm
\* `x if x % 10 == 0` before the final `_ => Err(..)`, and its
\* single_digit(x / 10).expect("under 10") fails for x / 10 >= 10
C16_Witness ==
    /\ fn = "under_100"
    /\ arg = 100
    /\ single_digit(arg \div 10).tag = "Err"
    /\ result.tag = "Panic"

\* C17: under_1000(x, group, policy, full) returns an error result for every
\* x >= 1000 under each of the four policies, and single_digit(x) returns an
\* error result for every x >= 10; neither returns a string (nor faults) for
\* an out-of-range value.
C17_OutOfRangeIsErr ==
    /\ (fn = "under_1000" /\ arg >= 1000) => result = Err("Value over 999.")
    /\ (fn = "single_digit" /\ arg >= 10) => result = Err("Value over 9.")

C17_Witness ==
    /\ fn = "under_1000"
    /\ arg = 1000
    /\ policy = "LastGroup"
    /\ result.tag = "Err"

(* ------------------------- claims: command line ------------------------ *)

StartsWith(s, t) == Len(t) <= Len(s) /\ SubSeq(s, 1, Len(t)) = t

\* the options the program knows, in lower case
KnownOptions ==
    {"--help", "--and-help", "--minimal",
     "--and=none", "--and=last", "--and=below1k", "--and=all"}

\* an unknown or malformed flag
IsUnknownFlag(text) == StartsWith(text, "--") /\ to_lowercase(text) \notin KnownOptions

\* the arguments of a list (after the program name) that are numbers
NumberArguments(a) ==
    {k \in 2..Len(a) : ~StartsWith(a[k], "--") /\ ascii_digits(a[k]) # ""
                       /\ parse_u64(ascii_digits(a[k])).tag = "Ok"}

\* C18: every command-line argument that is an unknown or malformed flag
\* (any string starting with "--" that is not --help, --and-help, --minimal
\* or a valid --and= option, short ones such as "--x" or "--hel" included) is
\* turned by parse_single_input into a per-input Error component without
\* faulting, so Config::parse and process still convert every other argument
\* of the same batch.
C18_AsClaimed ==
    /\ (fn = "parse_single_input" /\ IsUnknownFlag(args[1]))
        => component.kind = "Error"
    /\ (fn \in {"Config::parse", "Config::process"} /\ Len(args) >= 2)
        => /\ config.tag = "Ok"
           /\ config.val.output_components.tag = "Ok"
           /\ LET cmpts == config.val.output_components.val
              IN  Cardinality({k \in 1..Len(cmpts) : cmpts[k].kind = "ToConvert"})
                    = Cardinality(NumberArguments(args))

\* what the code does instead: &cleaned[2..6] is taken of an option shorter
\* than 6 bytes, which panics, and with it the whole of Config::parse, the
\* number given before the flag included
C18_Witness ==
    /\ fn = "Config::parse"
    /\ args = <<ProgName, "42", "--x">>
    /\ IsUnknownFlag(args[3])
    /\ parse_single_input(args[2]) = ToConvert(U64FromNat(42))
    /\ parse_single_input(args[3]).kind = "Panic"
    /\ config.tag = "Panic"

\* the token of an argument "--and=<token>", as given
AndToken(text) == SubSeq(text, 7, Len(text))

IsAndArgument(text) == StartsWith(to_lowercase(text), "--and=")

\* the variant each of the four literal tokens stands for
AndTokenTable ==
    [none |-> "None", last |-> "LastGroup", below1k |-> "OnlyUnderThousand", all |-> "All"]

\* C19 as stated: parse_single_input maps "--and=<token>" to
\* AndOption(None), AndOption(LastGroup), AndOption(OnlyUnderThousand),
\* AndOption(All) when <token> is none, last, below1k, all respectively, in
\* any letter case, and maps every other token (the empty one included) to
\* the Error component 'Invalid "and" option: <token>'.
C19_AsClaimed ==
    (fn = "parse_single_input" /\ IsAndArgument(args[1]))
        => LET token == AndToken(args[1])
               lower == to_lowercase(token)
           IN  IF lower \in DOMAIN AndTokenTable
               THEN component = AndOption(AndTokenTable[lower])
               ELSE component = Error("Invalid \"and\" option: " \o token)

\* C19, amended: the same mapping, and for every other token the Error
\* component 'Invalid "and" option: <token in lower case>': the message
\* carries the token as lowercased by the parser, not as typed.
C19_AndTokenMapping ==
    (fn = "parse_single_input" /\ IsAndArgument(args[1]))
        => LET token == AndToken(args[1])
               lower == to_lowercase(token)
           IN  IF lower \in DOMAIN AndTokenTable
               THEN component = AndOption(AndTokenTable[lower])
               ELSE component = Error("Invalid \"and\" option: " \o lower)

C19_Witness ==
    /\ fn = "parse_single_input"
    /\ args = <<"--and=Foo">>
    /\ component = Error("Invalid \"and\" option: foo")
    /\ parse_single_input("--And=Below1K") = AndOption("OnlyUnderThousand")
    /\ parse_single_input("--and=") = Error("Invalid \"and\" option: ")

\* the positions of the valid --and= options in an argument list
ValidAndArguments(a) ==
    {k \in 2..Len(a) :
        IsAndArgument(a[k]) /\ to_lowercase(AndToken(a[k])) \in DOMAIN AndTokenTable}

\* All, or the policy of the last valid --and= option of the list
PolicyOfList(a) ==
    IF ValidAndArguments(a) = {} THEN "All"
    ELSE LET last == CHOOSE k \in ValidAndArguments(a) :
                        \A j \in ValidAndArguments(a) : j <= k
         IN  AndTokenTable[to_lowercase(AndToken(a[last]))]

\* the ToConvert entries Config::parse produced (none when it panicked, and
\* none when there was no argument)
ToConvertEntries(c) ==
    IF c.tag = "Ok" /\ c.val.output_components.tag = "Ok"
    THEN {k \in 1..Len(c.val.output_components.val) :
            c.val.output_components.val[k].kind = "ToConvert"}
    ELSE {}

\* C20: for every argument list with at least one argument after the program
\* name, every ToConvert entry produced by Config::parse carries the same
\* policy: All when no valid --and= option is present, otherwise the policy
\* of the last valid --and= option in the list, wherever it stands relative
\* to the numbers (an option placed after a number still applies to that
\* number, and an invalid --and= token leaves the policy unchanged).
C20_OnePolicyForTheWholeList ==
    (fn = "Config::parse" /\ Len(args) >= 2)
        => \A k \in ToConvertEntries(config) :
            config.val.output_components.val[k].and_behavior = PolicyOfList(args)

C20_Witness ==
    /\ fn = "Config::parse"
    /\ args = <<ProgName, "--AND=None", "42", "--and=last">>
    /\ config.tag = "Ok"
    /\ config.val.output_components
        = Ok(<<OutputToConvert(U64FromNat(42), "LastGroup")>>)
    /\ Config_parse(<<ProgName, "--and=last", "42", "--and=Foo">>).val.output_components.val[1]
        = OutputToConvert(U64FromNat(42), "LastGroup")

\* the ASCII digits of a text, in order
DigitsIn(text) ==
    LET at == {i \in 1..Len(text) : SubSeq(text, i, i) \in
                    {"0", "1", "2", "3", "4", "5", "6", "7", "8", "9"}}
        RECURSIVE Upto(_)
        Upto(i) == IF i = 0 THEN ""
                   ELSE Upto(i - 1) \o (IF i \in at THEN SubSeq(text, i, i) ELSE "")
    IN  Upto(Len(text))

\* a nonempty digit string without its leading zeros ("0" when all are zeros)
Significant(d) ==
    LET nz == {i \in 1..Len(d) : SubSeq(d, i, i) # "0"}
    IN  IF nz = {} THEN "0"
        ELSE SubSeq(d, CHOOSE i \in nz : \A j \in nz : i <= j, Len(d))

MaxNumeral == "18446744073709551615"

\* the rank of a digit character
DigitRank(c) == CHOOSE r \in 0..9 : SubSeq("0123456789", r + 1, r + 1) = c

\* a numeral without leading zeros denotes more than 18_446_744_073_709_551_615
ExceedsMax(n) ==
    \/ Len(n) > Len(MaxNumeral)
    \/ /\ Len(n) = Len(MaxNumeral)
       /\ \E i \in 1..Len(n) :
            /\ SubSeq(n, 1, i - 1) = SubSeq(MaxNumeral, 1, i - 1)
            /\ DigitRank(SubSeq(n, i, i)) > DigitRank(SubSeq(MaxNumeral, i, i))

\* not treated as an option: does not start with "--" or has length at most 2
NotAnOption(text) == ~StartsWith(text, "--") \/ Len(text) <= 2

LinesOf(s) ==
    LET breaks == Occurrences(s, "\n")
        n == Cardinality(breaks)
        NthBreak(k) == CHOOSE i \in breaks : Cardinality({j \in breaks : j < i}) = k - 1
        From(k) == IF k = 1 THEN 1 ELSE NthBreak(k - 1) + 1
        To(k) == IF k = n + 1 THEN Len(s) ELSE NthBreak(k) - 1
    IN  [k \in 1..(n + 1) |-> SubSeq(s, From(k), To(k))]

\* the positions of the number arguments of a list, in argument order
NumberPositions(a) ==
    LET IsNumber(k) == k \in NumberArguments(a)
    IN  SelectSeq([k \in 1..Len(a) |-> k], IsNumber)

\* --minimal was given
MinimalGiven(a) == \E k \in 2..Len(a) : to_lowercase(a[k]) = "--minimal"

\* the line the claim gives for the number argument at position k
NumberLine(a, k) ==
    (IF MinimalGiven(a) THEN "" ELSE Significant(DigitsIn(a[k])) \o ": ")
    \o to_word(parse_single_input(a[k]).value, PolicyOfList(a)).val

\* C22: for a Config whose components are all valid numbers and with help
\* and and-help off, process() returns one line per number in argument
\* order, joined by a single newline with no trailing newline; each line is
\* "<decimal value>: <to_word(value, policy)>", or just
\* "<to_word(value, policy)>" when --minimal was given.
C22_OneLinePerNumber ==
    (/\ fn = "Config::process"
     /\ config.val.output_components.tag = "Ok"
     /\ ~config.val.help
     /\ ~config.val.and_help
     /\ \A k \in 1..Len(config.val.output_components.val) :
            config.val.output_components.val[k].kind = "ToConvert")
        => LET at == NumberPositions(args)
           IN  /\ output.tag = "Ok"
               /\ Len(at) = Len(config.val.output_components.val)
               /\ IF Len(at) = 0 THEN output.val = ""
                  ELSE LinesOf(output.val) = [k \in 1..Len(at) |-> NumberLine(args, at[k])]

C22_Witness ==
    /\ fn = "Config::process"
    /\ args = <<ProgName, "--minimal", "409_343", "42">>
    /\ output = Ok("four-hundred and nine thousand, three-hundred and forty-three\nforty-two")
    /\ Config_process(Config_parse(<<ProgName, "42", "--and=last", "409_343">>).val)
        = Ok("42: forty-two\n409343: four-hundred nine thousand, three-hundred and forty-three")

\* C23: Config::parse called with only the program name yields
\* output_components = Err with help, and_help and minimal_output all false
\* and the program name kept, and process() on that Config returns exactly
\* "No arguments. For help, run:\n$ <program name> --help".
C23_NoArguments ==
    (fn \in {"Config::parse", "Config::process"} /\ Len(args) = 1)
        => /\ config.tag = "Ok"
           /\ config.val.output_components.tag = "Err"
           /\ ~config.val.help
           /\ ~config.val.and_help
           /\ ~config.val.minimal_output
           /\ config.val.prog_name = args[1]
           /\ fn = "Config::process"
                => output = Ok("No arguments. For help, run:\n$ " \o args[1] \o " --help")

C23_Witness ==
    /\ fn = "Config::process"
    /\ args = <<"blahblah">>
    /\ config.val.output_components.tag = "Err"
    /\ output = Ok("No arguments. For help, run:\n$ blahblah --help")

(* ------------------------- claims: conversion -------------------------- *)

\* the calls of a set that go to the function named
CallsTo(calls, name) == {c \in calls : c[1] = name}

\* under_100(x) calls itself at most once, on a multiple of ten that makes no
\* further call of under_100
Under100RecursesAtMostOnce(x) ==
    LET rec == CallsTo(under_100_calls(x), "under_100")
    IN  /\ Cardinality(rec) <= 1
        /\ \A c \in rec :
            /\ c[2] % 10 = 0
            /\ c[2] < x
            /\ CallsTo(under_100_calls(c[2]), "under_100") = {}

\* under_1000(x, ..) calls itself at most once, on a multiple of 100 that
\* makes no further call of under_1000, and every under_100 it calls recurses
\* at most once
Under1000RecursesAtMostOnce(x) ==
    LET rec == CallsTo(under_1000_calls(x), "under_1000")
    IN  /\ Cardinality(rec) <= 1
        /\ \A c \in rec :
            /\ c[2] % 100 = 0
            /\ c[2] < x
            /\ under_1000_calls(c[2]) = {<<"single_digit", c[2] \div 100>>}
        /\ \A c \in CallsTo(under_1000_calls(x), "under_100") :
            Under100RecursesAtMostOnce(c[2])

\* C24: every call to_word(x, policy) terminates: at most 7 groups are
\* processed, under_1000 recurses at most once (on the hundreds part, which
\* is a multiple of 100 and takes a non-recursive branch) and under_100
\* recurses at most once (on the tens part, which is a multiple of 10 and
\* takes a non-recursive branch).
C24_BoundedRecursion ==
    /\ fn = "under_100" => (result # NoResult /\ Under100RecursesAtMostOnce(arg))
    /\ fn = "under_1000" => (result # NoResult /\ Under1000RecursesAtMostOnce(arg))
    /\ fn = "to_word"
        => /\ result.tag = "Ok"
           /\ Len(to_word_groups(value)) = 7
           /\ Len(to_word_kept(value)) <= 7
           /\ \A k \in 1..Len(to_word_kept(value)) :
                Under1000RecursesAtMostOnce(to_word_kept(value)[k][1])

C24_Witness ==
    /\ fn = "to_word"
    /\ value = U64Max
    /\ policy = "OnlyUnderThousand"
    /\ result.tag = "Ok"
    /\ Len(to_word_kept(value)) = 7
    /\ CallsTo(under_1000_calls(446), "under_1000") = {<<"under_1000", 400>>}
    /\ CallsTo(under_1000_calls(446), "under_100") = {<<"under_100", 46>>, <<"under_100", 40>>}

\* in a text, every " and " stands right after "-hundred" and right before a
\* word, and there is at most one of them
ConjunctionOnlyAfterHundreds(s) ==
    /\ Cardinality(Occurrences(s, " and ")) <= 1
    /\ \A i \in Occurrences(s, " and ") :
        /\ i > 8
        /\ SubSeq(s, i - 8, i - 1) = "-hundred"
        /\ i + 5 <= Len(s)
        /\ SubSeq(s, i + 5, i + 5) \notin {" ", ",", "-"}

\* C25: under every policy, All included, the conjunction " and " occurs only
\* inside a group, between its hundreds part and its nonzero tens/units
\* part: a group whose value is below 100 or an exact multiple of 100 is
\* rendered without any conjunction, and no conjunction is ever placed
\* between two groups (the pieces stay separated by ", " alone).
C25_ConjunctionOnlyInsideGroups ==
    /\ (fn = "under_1000" /\ result.tag = "Ok")
        => /\ ConjunctionOnlyAfterHundreds(result.val)
           /\ (arg < 100 \/ arg % 100 = 0) => ~Contains(result.val, " and ")
    /\ (fn = "to_word" /\ value # U64Zero)
        => LET pieces == PiecesOf(result.val)
           IN  /\ result.tag = "Ok"
               /\ Len(pieces) = Cardinality(NonzeroGroupIndexes(value))
               /\ \A k \in 1..Len(pieces) :
                    LET g == GroupOf(value, NthNonzeroGroup(value, k))
                    IN  /\ ConjunctionOnlyAfterHundreds(pieces[k])
                        /\ (g < 100 \/ g % 100 = 0) => ~Contains(pieces[k], " and ")
    /\ (fn = "to_word" /\ value = U64Zero) => ~Contains(result.val, " and ")

C25_Witness ==
    /\ fn = "to_word"
    /\ value = <<1019, 14, 0>>
    /\ policy = "All"
    /\ result = Ok("fourteen billion, one thousand, nineteen")
    /\ to_word(<<530175999, 4, 0>>, "All").val
        = "four billion, five-hundred and thirty million, one-hundred and seventy-five thousand, nine-hundred and ninety-nine"

\* C26: for every u64 x, the word "zero" occurs in to_word(x, policy) if and
\* only if x = 0: zero groups, a zero tens/units remainder after a hundreds
\* part, and a zero units digit after a tens word are never rendered.
C26_ZeroOnlyForZero ==
    /\ (fn = "to_word")
        => /\ result.tag = "Ok"
           /\ Contains(result.val, "zero") <=> value = U64Zero
    /\ (fn = "under_1000" /\ arg \in 1..999)
        => (result.tag = "Ok" /\ ~Contains(result.val, "zero"))
    /\ (fn = "under_100" /\ arg \in 1..99)
        => (result.tag = "Ok" /\ ~Contains(result.val, "zero"))

C26_Witness ==
    /\ fn = "to_word"
    /\ value = <<350000000, 0, 0>>
    /\ result = Ok("three-hundred and fifty million")
    /\ to_word(U64Zero, policy) = Ok("zero")
    /\ to_word(<<200105, 0, 0>>, "None") = Ok("two-hundred thousand, one-hundred five")

\* a text with each " and " replaced by a single space
RECURSIVE WithoutConjunctions(_)
WithoutConjunctions(s) ==
    IF Occurrences(s, " and ") = {} THEN s
    ELSE LET i == CHOOSE j \in Occurrences(s, " and ") :
                    \A k \in Occurrences(s, " and ") : j <= k
         IN  SubSeq(s, 1, i - 1) \o " " \o WithoutConjunctions(SubSeq(s, i + 5, Len(s)))

\* C27: the policies differ only in the conjunction: for every x and every
\* policy p, replacing each " and " in to_word(x, p) by a single space gives
\* to_word(x, None); moreover for every x < 1000 the outputs under LastGroup,
\* OnlyUnderThousand and All are identical, and for every x >= 1000 the
\* output under OnlyUnderThousand equals the output under None.
C27_PoliciesDifferOnlyInConjunction ==
    fn = "to_word"
        => /\ result.tag = "Ok"
           /\ WithoutConjunctions(result.val) = to_word(value, "None").val
           /\ (Below1000(value) /\ policy \in {"LastGroup", "OnlyUnderThousand"})
                => result = to_word(value, "All")
           /\ (~Below1000(value) /\ policy = "OnlyUnderThousand")
                => result = to_word(value, "None")

C27_Witness ==
    /\ fn = "to_word"
    /\ value = <<330759736, 0, 0>>
    /\ policy = "LastGroup"
    /\ Contains(result.val, " and ")
    /\ result # to_word(value, "All")
    /\ result # to_word(value, "None")
    /\ to_word(value, "OnlyUnderThousand") = to_word(value, "None")
    /\ to_word(U64FromNat(736), "OnlyUnderThousand") = to_word(U64FromNat(736), "All")

\* the positions of the erroneous arguments of a list: neither a number nor
\* an option the program knows
ErrorPositions(a) ==
    LET IsError(k) == /\ k >= 2
                      /\ k \notin NumberArguments(a)
                      /\ to_lowercase(a[k]) \notin KnownOptions
    IN  SelectSeq([k \in 1..Len(a) |-> k], IsError)

\* a list mixing valid numbers and erroneous arguments
Mixed(a) == Len(NumberPositions(a)) > 0 /\ Len(ErrorPositions(a)) > 0

HelpGiven(a) == \E k \in 2..Len(a) : to_lowercase(a[k]) = "--help"

\* the last n elements of a sequence
LastOf(seq, n) == SubSeq(seq, Len(seq) - n + 1, Len(seq))

\* the lines the claim gives for a mixed list: the conversion lines, then the
\* error block
MixedLines(a) ==
    [k \in 1..Len(NumberPositions(a)) |-> NumberLine(a, NumberPositions(a)[k])]
    \o <<"Errors", "-----">>
    \o [k \in 1..Len(ErrorPositions(a)) |-> parse_single_input(a[ErrorPositions(a)[k]]).msg]

\* the footer, as a line
FooterLine(a) == "For help, run: " \o a[1] \o " --help"

\* C28: for every argument list mixing valid numbers and erroneous arguments
\* in any order, process() emits all conversion lines first (in argument
\* order), then one newline, then the block "Errors\n-----\n" followed by
\* the error messages in argument order; the footer
\* "\nFor help, run: <program name> --help" is appended exactly when there
\* is at least one error, no valid conversion, and --help was not given.
C28_AsClaimed ==
    /\ (fn \in {"Config::parse", "Config::process"} /\ Len(args) >= 2
            /\ Len(ErrorPositions(args)) > 0)
        => config.tag = "Ok"
    /\ (fn = "Config::process" /\ Len(args) >= 2 /\ Mixed(args))
        => /\ output.tag = "Ok"
           /\ Len(LinesOf(output.val)) >= Len(MixedLines(args))
           /\ LastOf(LinesOf(output.val), Len(MixedLines(args))) = MixedLines(args)
           /\ (~HelpGiven(args) /\ ~config.val.and_help)
                => LinesOf(output.val) = MixedLines(args)
    /\ (fn = "Config::process" /\ Len(args) >= 2)
        => (EndsWith(output.val, "\n" \o FooterLine(args))
                <=> (/\ Len(ErrorPositions(args)) > 0
                     /\ Len(NumberPositions(args)) = 0
                     /\ ~HelpGiven(args)))

\* what the code does instead for a list whose erroneous argument is an
\* unknown flag of 3 to 5 bytes: Config::parse panics, and process() emits
\* neither the conversion line nor the error block
C28_Witness ==
    /\ fn = "Config::parse"
    /\ args = <<ProgName, "asfskajlas", "42", "--x">>
    /\ Mixed(args)
    /\ config.tag = "Panic"

====
